---- MODULE Spec2Model ----
(***************************************************************************)
(* Model of create_bot_from_volume_folder/multi_turn_rag_chain.py: the     *)
(* LangChain chain that rewrites the last question, classifies its topic,  *)
(* searches the vector index with a topic filter and asks the model for    *)
(* the answer.                                                             *)
(*                                                                         *)
(* Text is a sequence of tokens; a token is either whitespace or a word    *)
(* without whitespace, so str.strip() is the removal of the leading and    *)
(* trailing whitespace tokens and "" is the empty sequence.                *)
(*                                                                         *)
(* The language model and the vector index are collaborators: every call   *)
(* either raises or returns any value of a small set.  Each call a request *)
(* makes is appended to the request's call log, in the order the calls     *)
(* are made.                                                               *)
(***************************************************************************)
EXTENDS Integers, Sequences, FiniteSets

\* ---------------------------------------------------------------- bounds
\* Longest conversation an invocation carries.
MaxTurns == 3
\* Most chunks one vector search returns.
MaxChunks == 2
\* Requests the serving process runs at the same time (SpecConcurrent).
NumThreads == 2

Slots == 1..NumThreads

\* ------------------------------------------------------------------ text
Whitespace == {" ", "\n"}

RECURSIVE lstrip(_)
lstrip(s) == IF s = <<>> \/ Head(s) \notin Whitespace THEN s ELSE lstrip(Tail(s))

RECURSIVE rstrip(_)
rstrip(s) ==
    IF s = <<>> \/ s[Len(s)] \notin Whitespace THEN s
    ELSE rstrip(SubSeq(s, 1, Len(s) - 1))

\* str.strip() of line 70.
strip(s) == rstrip(lstrip(s))

RECURSIVE SeqsUpTo(_, _)
SeqsUpTo(S, n) ==
    IF n = 0 THEN {<<>>}
    ELSE LET shorter == SeqsUpTo(S, n - 1)
         IN  shorter \cup {Append(s, x) : s \in {t \in shorter : Len(t) = n - 1}, x \in S}

\* ---------------------------------------------------------------- inputs
\* The chat turns an invocation may carry.  "system" stands for every role
\* that is neither "user" nor "assistant".
Turns ==
    { [role |-> "user", content |-> <<" ", "q1">>],
      [role |-> "assistant", content |-> <<"a1">>],
      [role |-> "system", content |-> <<"s1">>] }

Conversations == SeqsUpTo(Turns, MaxTurns)

\* The conversations of the concurrent specification: the two shapes of
\* input_example (lines 239-273).
ConcurrentConversations ==
    { <<[role |-> "user", content |-> <<" ", "q1">>]>>,
      <<[role |-> "user", content |-> <<" ", "q1">>],
        [role |-> "assistant", content |-> <<"a1">>],
        [role |-> "user", content |-> <<" ", "q1">>]>> }

\* The topics of get_topic_template (line 180).
Labels ==
    { <<"cancer", " ", "vaccines">>,
      <<"stem", " ", "cell", " ", "therapy">>,
      <<"cellular", " ", "reprogramming">> }

\* What the language model may answer to any prompt: a label surrounded by
\* whitespace, a label in another case, and text that is no label.
LLMOutputs ==
    { <<" ", "cancer", " ", "vaccines", "\n">>,
      <<"Stem", " ", "cell", " ", "therapy">>,
      <<"unsure">> }

ConcurrentLLMOutputs ==
    { <<" ", "cancer", " ", "vaccines", "\n">>,
      <<"Stem", " ", "cell", " ", "therapy">> }

\* The documents the vector index may return.
Corpus ==
    { [page_content |-> <<"p1">>, title |-> <<"t1">>],
      [page_content |-> <<"p2", " ">>, title |-> <<"t2">>] }

SearchResults == SeqsUpTo(Corpus, MaxChunks)

ConcurrentSearchResults ==
    { <<>>, <<[page_content |-> <<"p1">>, title |-> <<"t1">>]>> }

\* Values retriever_config.get("chunk_template") may return (line 117).
ChunkTemplates ==
    { <<"Passage: ", "{chunk_text}", "\n", "Document URI: ", "{document_uri}", "\n">>,
      <<"{chunk_text}">> }

\* retriever_config["parameters"] as loaded (line 50): the opaque bundle,
\* with no filter.  filter is {} when the dict has no 'filter' key and
\* {v} when it holds {'topic': v}.
ConfigParameters == [bundle |-> "parameters", filter |-> {}]

\* ----------------------------------------------------------------- state
VARIABLES
    aliased,         \* whether a retriever keeps the dict it was given as
                     \* search_kwargs (TRUE) or a copy of it (FALSE)
    parameters,      \* the dict retriever_config["parameters"], one per process
    req              \* per slot: the invocation running there

vars == <<aliased, parameters, req>>

IdleRequest ==
    [ pc |-> "idle",
      messages |-> <<>>,
      question |-> <<>>,
      chat_history |-> <<>>,
      formatted_chat_history |-> <<>>,
      rewrite |-> "todo",
      retriever |-> "todo",
      rephrased_question |-> <<>>,
      filter_value |-> <<>>,
      docs |-> <<>>,
      chunk_template |-> <<>>,
      context |-> <<>>,
      result |-> [ok |-> TRUE, value |-> <<>>, error |-> ""],
      calls |-> <<>> ]

Init ==
    /\ aliased \in BOOLEAN
    /\ parameters = ConfigParameters
    /\ req = [r \in Slots |-> IdleRequest]

\* ------------------------------------------------------- pure functions
\* chat_messages_array[-1] raises IndexError on the empty list (line 38).
RaisesIndexError(chat_messages_array) == Len(chat_messages_array) = 0

\* Line 38: the content of the last message, whatever its role.
extract_user_query_string(chat_messages_array) ==
    chat_messages_array[Len(chat_messages_array)].content

\* Line 43: chat_messages_array[:-1].
extract_chat_history(chat_messages_array) ==
    SubSeq(chat_messages_array, 1, Len(chat_messages_array) - 1)

HumanMessage(content) == [type |-> "human", content |-> content]

AIMessage(content) == [type |-> "ai", content |-> content]

\* Lines 151-159: the loop body's if / elif, with no else.
RECURSIVE FormatMessages(_)
FormatMessages(history) ==
    IF history = <<>> THEN <<>>
    ELSE LET chat_message == Head(history)
             rest == FormatMessages(Tail(history))
         IN  IF chat_message.role = "user"
                 THEN <<HumanMessage(chat_message.content)>> \o rest
             ELSE IF chat_message.role = "assistant"
                 THEN <<AIMessage(chat_message.content)>> \o rest
             ELSE rest

\* Lines 147-160.
format_chat_history_for_prompt(chat_messages_array) ==
    FormatMessages(extract_chat_history(chat_messages_array))

\* str.format of the chunk template (lines 119-122): each placeholder is
\* replaced by its value, every other piece is kept.
RECURSIVE FormatChunk(_, _, _)
FormatChunk(template, chunk_text, document_uri) ==
    IF template = <<>> THEN <<>>
    ELSE LET piece == Head(template)
             rest == FormatChunk(Tail(template), chunk_text, document_uri)
         IN  IF piece = "{chunk_text}" THEN chunk_text \o rest
             ELSE IF piece = "{document_uri}" THEN document_uri \o rest
             ELSE <<piece>> \o rest

\* Mutant of JoinChunks: "\n".join.
RECURSIVE JoinChunksNewline(_)
JoinChunksNewline(chunk_contents) ==
    IF chunk_contents = <<>> THEN <<>>
    ELSE IF Len(chunk_contents) = 1 THEN Head(chunk_contents)
    ELSE Head(chunk_contents) \o <<"\n">> \o JoinChunksNewline(Tail(chunk_contents))

\* "".join(chunk_contents) (line 125).
RECURSIVE JoinChunks(_)
JoinChunks(chunk_contents) ==
    IF chunk_contents = <<>> THEN <<>>
    ELSE Head(chunk_contents) \o JoinChunks(Tail(chunk_contents))

\* Lines 116-125.
format_context(template, docs) ==
    JoinChunks([i \in 1..Len(docs) |->
        FormatChunk(template, docs[i].page_content, docs[i].title)])

\* Mutant of HasHistory: >= for >.
HasHistoryOrNone(chat_history) == Len(chat_history) >= 0

\* The condition of the RunnableBranch (line 211).
HasHistory(chat_history) == Len(chat_history) > 0

\* Mutant of StrOutputParser: the text stripped.
StrOutputParserStripped(reply) == strip(reply)

\* StrOutputParser (lines 212, 222, 229): the text of the model's message.
StrOutputParser(reply) == reply

\* query_rewrite_prompt (lines 166-176), rendered.
query_rewrite_prompt(chat_history, question) ==
    [template |-> "query_rewrite_template",
     chat_history |-> chat_history, question |-> question]

\* get_topic_prompt (lines 178-187), rendered.
get_topic_prompt(question) ==
    [template |-> "get_topic_template", question |-> question]

\* prompt (lines 131-143), rendered: the system message, the history
\* messages, then the user message "{question}".
prompt(context, formatted_chat_history, question) ==
    <<[type |-> "system",
       content |-> [template |-> "llm_system_prompt_template", context |-> context]]>>
    \o formatted_chat_history
    \o <<HumanMessage(question)>>

\* Mutant of ThirdStep: the rephrased question handed on as "question".
ThirdStepRephrased(x) ==
    [context |-> x.context,
     formatted_chat_history |-> x.formatted_chat_history,
     question |-> x.rephrased_question]

\* The dict of the third step (lines 221-226) as the prompt receives it:
\* "question" is the question of the first step, not the rephrased one.
ThirdStep(x) ==
    [context |-> x.context,
     formatted_chat_history |-> x.formatted_chat_history,
     question |-> x.question]

\* The 'filter' entry written into the parameters dict (line 70).
TopicFilter(filter_value) == {strip(filter_value)}

\* search_kwargs of the module-level retriever (line 96): the parameters
\* dict itself when the retriever keeps the object it was given, else the
\* copy taken at import, before any request ran.
RetrieverSearchKwargs == IF aliased THEN parameters ELSE ConfigParameters

\* ------------------------------------------------------ collaborator calls
LLMCall(stage, rendered, ok, reply) ==
    [svc |-> "llm", stage |-> stage, prompt |-> rendered, ok |-> ok, reply |-> reply]

IndexCall(stage, query, kwargs, ok) ==
    [svc |-> "index", stage |-> stage, query |-> query, kwargs |-> kwargs, ok |-> ok]

Failure(error) == [ok |-> FALSE, value |-> <<>>, error |-> error]

Success(value) == [ok |-> TRUE, value |-> value, error |-> ""]

Update(r, rec) == req' = [req EXCEPT ![r] = rec]

\* --------------------------------------------------------------- actions
\* chain.invoke(input) (line 276): an invocation starts in the lowest free
\* slot, while fewer than `limit` are running.
Invoke(r, conversations, limit) ==
    /\ req[r].pc = "idle"
    /\ \A s \in Slots : s < r => req[s].pc # "idle"
    /\ Cardinality({s \in Slots : req[s].pc # "idle"}) < limit
    /\ \E messages \in conversations :
           Update(r, [IdleRequest EXCEPT !.pc = "normalize", !.messages = messages])
    /\ UNCHANGED <<aliased, parameters>>

\* First step of the chain (lines 201-206).
Normalize(r) ==
    /\ req[r].pc = "normalize"
    /\ IF RaisesIndexError(req[r].messages)
           THEN Update(r, [req[r] EXCEPT !.pc = "done", !.result = Failure("IndexError")])
           ELSE Update(r, [req[r] EXCEPT
                    !.pc = "stage2",
                    !.question = extract_user_query_string(req[r].messages),
                    !.chat_history = extract_chat_history(req[r].messages),
                    !.formatted_chat_history =
                        format_chat_history_for_prompt(req[r].messages)])
    /\ UNCHANGED <<aliased, parameters>>

\* "rephrased_question" of the second step (lines 209-215).  The steps of
\* a dict run side by side, so this one and Retriever run in either order.
RephraseQuestion(r, outputs) ==
    /\ req[r].pc = "stage2"
    /\ req[r].rewrite = "todo"
    /\ LET rendered == query_rewrite_prompt(req[r].chat_history, req[r].question)
       IN  \/ /\ HasHistory(req[r].chat_history)
              /\ \E reply \in outputs :
                     Update(r, [req[r] EXCEPT
                         !.rewrite = "ok",
                         !.rephrased_question = StrOutputParser(reply),
                         !.calls = Append(@, LLMCall("rewrite", rendered, TRUE, reply))])
           \/ /\ HasHistory(req[r].chat_history)
              /\ Update(r, [req[r] EXCEPT
                     !.rewrite = "err",
                     !.calls = Append(@, LLMCall("rewrite", rendered, FALSE, <<>>))])
           \/ /\ ~HasHistory(req[r].chat_history)
              /\ Update(r, [req[r] EXCEPT
                     !.rewrite = "ok",
                     !.rephrased_question = req[r].question])
    /\ UNCHANGED <<aliased, parameters>>

\* "retriever" of the second step (line 216): a search for the question
\* with the module-level retriever; the third step does not read its result.
Retriever(r, results) ==
    /\ req[r].pc = "stage2"
    /\ req[r].retriever = "todo"
    /\ \/ \E docs \in results :
              Update(r, [req[r] EXCEPT
                  !.retriever = "ok",
                  !.calls = Append(@, IndexCall("retriever", req[r].question,
                                                RetrieverSearchKwargs, TRUE))])
       \/ Update(r, [req[r] EXCEPT
              !.retriever = "err",
              !.calls = Append(@, IndexCall("retriever", req[r].question,
                                            RetrieverSearchKwargs, FALSE))])
    /\ UNCHANGED <<aliased, parameters>>

\* End of the second step: every step of the dict has run; the first
\* exception in key order ("rephrased_question", then "retriever") is raised.
Join(r) ==
    /\ req[r].pc = "stage2"
    /\ req[r].rewrite # "todo"
    /\ req[r].retriever # "todo"
    /\ IF req[r].rewrite = "err"
           THEN Update(r, [req[r] EXCEPT !.pc = "done", !.result = Failure("LLMError")])
       ELSE IF req[r].retriever = "err"
           THEN Update(r, [req[r] EXCEPT !.pc = "done",
                                         !.result = Failure("VectorSearchError")])
       ELSE Update(r, [req[r] EXCEPT !.pc = "classify"])
    /\ UNCHANGED <<aliased, parameters>>

\* "filter_value" (line 222): the topic of the rephrased question.
Classify(r, outputs) ==
    /\ req[r].pc = "classify"
    /\ LET rendered == get_topic_prompt(req[r].rephrased_question)
       IN  \/ \E reply \in outputs :
                  Update(r, [req[r] EXCEPT
                      !.pc = "get_retriever",
                      !.filter_value = StrOutputParser(reply),
                      !.calls = Append(@, LLMCall("classify", rendered, TRUE, reply))])
           \/ Update(r, [req[r] EXCEPT
                  !.pc = "done",
                  !.result = Failure("LLMError"),
                  !.calls = Append(@, LLMCall("classify", rendered, FALSE, <<>>))])
    /\ UNCHANGED <<aliased, parameters>>

\* get_retriever, lines 69-70: the filter is written into the dict
\* retriever_config["parameters"].
SetFilter(r) ==
    /\ req[r].pc = "get_retriever"
    /\ parameters' = [parameters EXCEPT !.filter = TopicFilter(req[r].filter_value)]
    /\ Update(r, [req[r] EXCEPT !.pc = "search"])
    /\ UNCHANGED aliased

\* get_retriever, lines 72-84, then format_context (line 223), which reads
\* the chunk template from the configuration (line 117): the search
\* runs with the dict as it is when the retriever is built (a copy) or
\* called (the same object), which this step reads at once.
GetRetriever(r, results) ==
    /\ req[r].pc = "search"
    /\ \/ \E docs \in results, chunk_template \in ChunkTemplates :
              Update(r, [req[r] EXCEPT
                  !.pc = "generate",
                  !.docs = docs,
                  !.chunk_template = chunk_template,
                  !.context = format_context(chunk_template, docs),
                  !.calls = Append(@, IndexCall("get_retriever",
                                req[r].rephrased_question, parameters, TRUE))])
       \/ Update(r, [req[r] EXCEPT
              !.pc = "done",
              !.result = Failure("VectorSearchError"),
              !.calls = Append(@, IndexCall("get_retriever",
                            req[r].rephrased_question, parameters, FALSE))])
    /\ UNCHANGED <<aliased, parameters>>

\* prompt | model | StrOutputParser() (lines 227-229).
Generate(r, outputs) ==
    /\ req[r].pc = "generate"
    /\ LET input == ThirdStep(req[r])
           rendered == prompt(input.context, input.formatted_chat_history,
                              input.question)
       IN  \/ \E reply \in outputs :
                  Update(r, [req[r] EXCEPT
                      !.pc = "done",
                      !.result = Success(StrOutputParser(reply)),
                      !.calls = Append(@, LLMCall("generate", rendered, TRUE, reply))])
           \/ Update(r, [req[r] EXCEPT
                  !.pc = "done",
                  !.result = Failure("LLMError"),
                  !.calls = Append(@, LLMCall("generate", rendered, FALSE, <<>>))])
    /\ UNCHANGED <<aliased, parameters>>

\* The invocation returns (or raises) to its caller; the slot is free.
Return(r) ==
    /\ req[r].pc = "done"
    /\ Update(r, IdleRequest)
    /\ UNCHANGED <<aliased, parameters>>

Pipeline(r, outputs, results) ==
    \/ Normalize(r)
    \/ RephraseQuestion(r, outputs)
    \/ Retriever(r, results)
    \/ Join(r)
    \/ Classify(r, outputs)
    \/ SetFilter(r)
    \/ GetRetriever(r, results)
    \/ Generate(r, outputs)
    \/ Return(r)

\* One invocation at a time, as in the notebook (line 276).
Next ==
    \E r \in Slots :
        \/ Invoke(r, Conversations, 1)
        \/ Pipeline(r, LLMOutputs, SearchResults)

Spec == Init /\ [][Next]_vars

\* Invocations that overlap, as in a serving process with several threads.
NextConcurrent ==
    \E r \in Slots :
        \/ Invoke(r, ConcurrentConversations, NumThreads)
        \/ Pipeline(r, ConcurrentLLMOutputs, ConcurrentSearchResults)

SpecConcurrent == Init /\ [][NextConcurrent]_vars

\* ---------------------------------------------------------------- claims
Started(r) == req[r].pc \notin {"idle", "normalize"}

CallsOf(r, stage) == SelectSeq(req[r].calls, LAMBDA c : c.stage = stage)

LLMCalls(r) == SelectSeq(req[r].calls, LAMBDA c : c.svc = "llm")

LastTurn(r) == req[r].messages[Len(req[r].messages)]

\* C1: with no turn before the last one, the rephrased question is the last
\* turn's content, no rewrite call is made, and the only calls to the
\* language model are one topic classification and one answer generation.
C1_NoHistoryNoRewrite ==
    \A r \in Slots :
        (Started(r) /\ Len(req[r].messages) = 1) =>
            /\ CallsOf(r, "rewrite") = <<>>
            /\ req[r].rewrite # "err"
            /\ req[r].rewrite = "ok" =>
                   req[r].rephrased_question = req[r].messages[1].content
            /\ \A i \in 1..Len(LLMCalls(r)) :
                   LLMCalls(r)[i].stage \in {"classify", "generate"}
            /\ Len(CallsOf(r, "classify")) <= 1
            /\ Len(CallsOf(r, "generate")) <= 1
            /\ (req[r].pc = "done" /\ req[r].result.ok) =>
                   Len(LLMCalls(r)) = 2

C1_Witness ==
    \E r \in Slots :
        /\ Len(req[r].messages) = 1
        /\ req[r].pc = "done"
        /\ req[r].result.ok
        /\ req[r].rephrased_question = req[r].messages[1].content
        /\ Len(LLMCalls(r)) = 2

C3_PromptEndsWithOriginalQuestion ==
    \A r \in Slots :
        \A i \in 1..Len(CallsOf(r, "generate")) :
            LET rendered == CallsOf(r, "generate")[i].prompt
            IN  /\ rendered[Len(rendered)].type = "human"
                /\ rendered[Len(rendered)].content = LastTurn(r).content

C3_Witness ==
    \E r \in Slots :
        /\ Len(CallsOf(r, "generate")) = 1
        /\ Len(CallsOf(r, "rewrite")) = 1
        /\ req[r].rephrased_question # LastTurn(r).content
        /\ LastTurn(r).content # strip(LastTurn(r).content)

\* C4: an empty conversation, or one whose last turn is not the user's,
\* fails before any call to the language model or the vector index, and
\* ends in an error.  (The class of the error is not compared: the only
\* failure of the code here is the IndexError of line 38.)
C4_InvalidInputRejected ==
    \A r \in Slots :
        (req[r].pc # "idle"
            /\ (req[r].messages = <<>> \/ LastTurn(r).role # "user")) =>
            /\ req[r].calls = <<>>
            /\ req[r].pc \in {"normalize", "done"}
            /\ req[r].pc = "done" => ~req[r].result.ok

\* A conversation as the data model has it: not empty, every role "user"
\* or "assistant", the last turn the user's.
ValidConversation(messages) ==
    /\ messages # <<>>
    /\ \A k \in 1..Len(messages) : messages[k].role \in {"user", "assistant"}
    /\ messages[Len(messages)].role = "user"

casefold(s) == [i \in 1..Len(s) |-> IF s[i] = "Stem" THEN "stem" ELSE s[i]]

\* C5: for a valid conversation, the filter of every filtered search is
\* one of the labels, and a classifier output that is no label after
\* trimming and case-folding ends the request with
\* ClassificationAmbiguityError with no filtered search made.
C5_UnmatchedTopicRejected ==
    \A r \in Slots :
      ValidConversation(req[r].messages) =>
        /\ \A i \in 1..Len(CallsOf(r, "get_retriever")) :
               CallsOf(r, "get_retriever")[i].kwargs.filter \subseteq Labels
        /\ (\E i \in 1..Len(CallsOf(r, "classify")) :
                /\ CallsOf(r, "classify")[i].ok
                /\ casefold(strip(CallsOf(r, "classify")[i].reply)) \notin Labels) =>
               /\ CallsOf(r, "get_retriever") = <<>>
               /\ req[r].pc = "done" =>
                      /\ ~req[r].result.ok
                      /\ req[r].result.error = "ClassificationAmbiguityError"

\* C6: the filtered search of a request runs with the parameters as loaded
\* plus the filter of the request's own classification, whatever other
\* requests do meanwhile.
C6_SearchUsesOwnFilter ==
    \A r \in Slots :
        \A i \in 1..Len(CallsOf(r, "get_retriever")) :
            CallsOf(r, "get_retriever")[i].kwargs =
                [ConfigParameters EXCEPT !.filter = {strip(req[r].filter_value)}]

\* C7: with a turn before the last one, the query of every vector search
\* and the question of the topic classification are the rewriter's output.
C7_SearchesUseRewrittenQuestion ==
    \A r \in Slots :
        (Started(r) /\ Len(req[r].messages) >= 2 /\ req[r].rewrite = "ok") =>
            \A i \in 1..Len(req[r].calls) :
                LET c == req[r].calls[i]
                IN  /\ c.svc = "index" => c.query = req[r].rephrased_question
                    /\ c.stage = "classify" =>
                           c.prompt.question = req[r].rephrased_question

\* C8: the history of every answer prompt (the messages between the system
\* message and the question) has one message per prior turn, in order, of
\* the turn's role and content; a conversation with a turn of another
\* role never gets as far as an answer prompt.
C8_HistoryPreserved ==
    \A r \in Slots :
        \A i \in 1..Len(CallsOf(r, "generate")) :
            LET rendered == CallsOf(r, "generate")[i].prompt
                history == SubSeq(rendered, 2, Len(rendered) - 1)
            IN  /\ Len(history) = Len(req[r].messages) - 1
                /\ \A k \in 1..Len(history) :
                       /\ history[k].content = req[r].messages[k].content
                       /\ req[r].messages[k].role = "user" => history[k].type = "human"
                       /\ req[r].messages[k].role = "assistant" => history[k].type = "ai"
                       /\ req[r].messages[k].role \in {"user", "assistant"}

\* C9: no call to a collaborator follows a failed one in the same request,
\* and a request with a failed call ends with that call's error.
C9_FailFast ==
    \A r \in Slots :
        /\ \A i \in 1..Len(req[r].calls) :
               i < Len(req[r].calls) => req[r].calls[i].ok
        /\ \A i \in 1..Len(req[r].calls) :
               (~req[r].calls[i].ok /\ req[r].pc = "done") =>
                   /\ ~req[r].result.ok
                   /\ req[r].result.error =
                          (IF req[r].calls[i].svc = "llm" THEN "LLMError"
                           ELSE "VectorSearchError")

RECURSIVE ChunksInOrder(_, _)
ChunksInOrder(template, docs) ==
    IF docs = <<>> THEN <<>>
    ELSE ChunksInOrder(template, SubSeq(docs, 1, Len(docs) - 1))
         \o FormatChunk(template, docs[Len(docs)].page_content, docs[Len(docs)].title)

\* C10: after a filtered search that returned, the context is the formatted
\* chunks one after the other in the order returned (the empty string for
\* no chunk), the request goes on to the answer generation, and it ends
\* having made exactly one answer-generation call, with that context.
C10_ContextIsChunksInOrder ==
    \A r \in Slots :
        (\E i \in 1..Len(CallsOf(r, "get_retriever")) :
             CallsOf(r, "get_retriever")[i].ok) =>
            /\ req[r].docs = <<>> => req[r].context = <<>>
            /\ req[r].context = ChunksInOrder(req[r].chunk_template, req[r].docs)
            /\ req[r].pc \in {"generate", "done"}
            /\ Len(CallsOf(r, "generate")) = (IF req[r].pc = "done" THEN 1 ELSE 0)
            /\ req[r].pc = "done" =>
                   CallsOf(r, "generate")[1].prompt[1].content.context = req[r].context

C10_Witness ==
    \E r \in Slots :
        /\ req[r].pc = "done"
        /\ Len(CallsOf(r, "get_retriever")) = 1
        /\ CallsOf(r, "get_retriever")[1].ok
        /\ req[r].docs = <<>>
        /\ req[r].context = <<>>
        /\ Len(CallsOf(r, "generate")) = 1
        /\ req[r].result.ok

====
